---- MODULE Spec2Model ----
(***************************************************************************)
(* Model of the multipart/form-data client encoder of                      *)
(* rust-hyper-multipart-rfc7578 (src/src/client_.rs).                      *)
(*                                                                         *)
(* A Form is built by the add_* calls, turned into a Body by set_body      *)
(* (which calls Body::from), and the Body is then polled: every poll_next  *)
(* call is one step of the model.  Bytes are modelled as TLA+ strings, so  *)
(* the framing the code writes is the framing the model writes.            *)
(***************************************************************************)
EXTENDS Integers, Sequences, FiniteSets, TLC

VARIABLES
    form,      \* the Form: [parts, boundary]; kept as it was when set_body consumed it
    calls,     \* the builder calls made so far, each with its arguments and its result
    body,      \* the Body, or None while the Form is still being built
    request,   \* the Content-Type header set_body put on the request, or None
    polls      \* what each poll_next call returned, in call order

vars == <<form, calls, body, request, polls>>

\* Option<T>: None, or Some(x).
None == <<>>
Some(x) == <<x>>

(***************************************************************************)
(* Bounds of the model.                                                    *)
(***************************************************************************)
\* Builder calls made on one Form (successful or not).
MaxCalls == 2
\* poll_next calls made after the stream has ended.
MaxEosPolls == 2

(***************************************************************************)
(* Strings.                                                                *)
(***************************************************************************)
Min(a, b) == IF a < b THEN a ELSE b
Max(a, b) == IF a > b THEN a ELSE b

RECURSIVE Rep(_, _)
Rep(s, n) ==
    IF n = 0 THEN ""
    ELSE IF n % 2 = 1 THEN s \o Rep(s, n - 1)
    ELSE LET h == Rep(s, n \div 2) IN h \o h

\* The positions of character c in string s.
Positions(s, c) == {i \in 1..Len(s) : SubSeq(s, i, i) = c}

SetMax(S) == CHOOSE m \in S : \A k \in S : k <= m

CRLF == "\r\n"

(***************************************************************************)
(* The inputs the builder calls draw from.                                 *)
(***************************************************************************)
\* A name so long that one header block no longer fits the 2048-byte buffer.
LongName == Rep("n", 2048)
\* A text longer than the buffer.
BigText == Rep("t", 2100)

\* (name, text) pairs for add_text.
TextArgs ==
    {<<"field", "">>, <<"field", "Hello World!">>, <<"field", BigText>>,
     <<LongName, "hi">>}

\* A readable source (dyn Read): the bytes it holds, how many it has handed
\* out, and a script for its next reads: 0 is a read that fails, k > 0 a
\* read that returns at most k bytes; with the script used up every read
\* returns as much as fits.
Reader(data, script) == [data |-> data, pos |-> 0, script |-> script]

Readers == {Reader("", <<>>), Reader("abc", <<1>>), Reader("abc", <<0>>)}

\* The readers handed to add_reader_file and add_reader_file_with_mime.
FileReaders == {Reader("abc", <<1>>)}

Mimes == {"text/csv"}

\* The file system: what open and metadata answer for each path.
Paths == {"a.txt", "data", "dir", "missing", "proc"}

FS(path) ==
    CASE path = "a.txt"   -> [open |-> TRUE,  meta |-> "file", data |-> "file!"]
      [] path = "data"    -> [open |-> TRUE,  meta |-> "file", data |-> ""]
      [] path = "dir"     -> [open |-> TRUE,  meta |-> "dir",  data |-> ""]
      [] path = "proc"    -> [open |-> TRUE,  meta |-> "err",  data |-> ""]
      [] OTHER            -> [open |-> FALSE, meta |-> "err",  data |-> ""]

Boundaries == {"AbC123"}

(***************************************************************************)
(* Part and Inner.                                                         *)
(***************************************************************************)
Inner_Read(read) == [kind |-> "Read", read |-> read]
Inner_Text(s) == [kind |-> "Text", s |-> s]

\* Mutant: the two defaults are swapped.
default_content_type_swapped(inner) ==
    IF inner.kind = "Read" THEN "text/plain" ELSE "application/octet-stream"

default_content_type(inner) ==
    IF inner.kind = "Read" THEN "application/octet-stream" ELSE "text/plain"

RECURSIVE join(_, _)
join(v, sep) ==
    IF v = <<>> THEN ""
    ELSE IF Len(v) = 1 THEN v[1]
    ELSE v[1] \o sep \o join(Tail(v), sep)

Part_new(inner, name, mime, filename) ==
    LET params0 == <<"name=\"" \o name \o "\"">>
        disposition_params ==
            IF filename # None
            THEN Append(params0, "filename=\"" \o filename[1] \o "\"")
            ELSE params0
        content_type ==
            IF mime # None THEN mime[1] ELSE default_content_type(inner)
    IN [inner |-> inner,
        content_type |-> content_type,
        content_disposition |-> "form-data; " \o join(disposition_params, "; ")]

(***************************************************************************)
(* Form: the builder calls.  Each takes the Form and gives the Form after  *)
(* the call; _add_file also gives the io::Result it returns.               *)
(***************************************************************************)
Form_new(boundary) == [parts |-> <<>>, boundary |-> boundary]

add_text(self, name, text) ==
    [self EXCEPT !.parts = Append(@, Part_new(Inner_Text(text), name, None, None))]

\* Mutant: the part goes to the front.
add_reader_front(self, name, read) ==
    [self EXCEPT !.parts = <<Part_new(Inner_Read(read), name, None, None)>> \o @]

add_reader(self, name, read) ==
    [self EXCEPT !.parts = Append(@, Part_new(Inner_Read(read), name, None, None))]

add_reader_file(self, name, read, filename) ==
    [self EXCEPT !.parts =
        Append(@, Part_new(Inner_Read(read), name, None, Some(filename)))]

add_reader_file_with_mime(self, name, read, filename, mime) ==
    [self EXCEPT !.parts =
        Append(@, Part_new(Inner_Read(read), name, Some(mime), Some(filename)))]

\* Path::extension: the part of the file name after its last dot, if the
\* file name has a dot that is not its first character.
extension(path) ==
    LET slashes == Positions(path, "/")
        file_name == IF slashes = {} THEN path
                     ELSE SubSeq(path, SetMax(slashes) + 1, Len(path))
        dots == Positions(file_name, ".") \ {1}
    IN IF dots = {} THEN None
       ELSE Some(SubSeq(file_name, SetMax(dots) + 1, Len(file_name)))

\* Mime::from_str(..).ok(): a media type is "type/subtype"; anything without
\* a slash between two non-empty tokens does not parse.
Mime_from_str(s) ==
    LET slashes == Positions(s, "/")
    IN IF Cardinality(slashes) = 1 /\ slashes \cap {1, Len(s)} = {}
       THEN Some(s) ELSE None

\* Mutant: the part is queued as soon as the file is open, before the
\* metadata is looked at.
_add_file_push_first(self, name, path, mime) ==
    LET f == FS(path) IN
    IF ~f.open THEN [ret |-> "Err(open)", self |-> self]
    ELSE LET ext == extension(path)
             mime2 == IF ext # None THEN Mime_from_str(ext[1]) ELSE mime
             pushed == [self EXCEPT !.parts =
                           Append(@, Part_new(Inner_Read(Reader(f.data, <<>>)),
                                              name, mime2, Some(path)))]
         IN CASE f.meta = "err" -> [ret |-> "Err(metadata)", self |-> pushed]
              [] f.meta # "file" -> [ret |-> "Err(InvalidInput)", self |-> pushed]
              [] OTHER -> [ret |-> "Ok", self |-> pushed]

_add_file(self, name, path, mime) ==
    LET f == FS(path) IN
    IF ~f.open THEN [ret |-> "Err(open)", self |-> self]
    ELSE LET ext == extension(path)
             mime2 == IF ext # None THEN Mime_from_str(ext[1]) ELSE mime
         IN CASE f.meta = "err" -> [ret |-> "Err(metadata)", self |-> self]
              [] f.meta # "file" -> [ret |-> "Err(InvalidInput)", self |-> self]
              [] OTHER ->
                   [ret |-> "Ok",
                    self |-> [self EXCEPT !.parts =
                        Append(@, Part_new(Inner_Read(Reader(f.data, <<>>)),
                                           name, mime2, Some(path)))]]

add_file(self, name, path) == _add_file(self, name, path, None)

add_file_with_mime(self, name, path, mime) == _add_file(self, name, path, Some(mime))

(***************************************************************************)
(* The scratch buffer of one poll_next call: BytesMut::with_capacity and   *)
(* its Writer.  data are the bytes written so far, cap the capacity;       *)
(* segs records, beside the bytes, which write put which bytes there       *)
(* (head: a part's boundary and headers, content, final: the last          *)
(* boundary).  Writing past the capacity grows the buffer (Vec's           *)
(* amortised growth), it never fails.                                      *)
(***************************************************************************)
with_capacity(n) == [data |-> "", cap |-> n, segs |-> <<>>]

reserve(buf, additional) ==
    IF buf.cap - Len(buf.data) >= additional THEN buf
    ELSE [buf EXCEPT !.cap = Max(2 * buf.cap, Len(buf.data) + additional)]

write_all(buf, s) == [reserve(buf, Len(s)) EXCEPT !.data = @ \o s]

\* BytesMut::chunk_mut: the spare capacity, after reserving 64 bytes when
\* there is none.
chunk_mut(buf) == IF buf.cap = Len(buf.data) THEN reserve(buf, 64) ELSE buf

mark(buf, tag, part, from) ==
    [buf EXCEPT !.segs = Append(@, [tag |-> tag, part |-> part,
                                    len |-> Len(buf.data) - from])]

write_crlf(buf) == write_all(buf, CRLF)

write_boundary(self, buf) ==
    write_all(write_all(write_crlf(buf), "--"), self.boundary)

write_final_boundary(self, buf) == write_all(write_boundary(self, buf), "--")

write_headers(self, buf, part) ==
    LET w1 == write_crlf(buf)
        w2 == write_all(w1, "Content-Type: " \o part.content_type)
        w3 == write_crlf(w2)
        w4 == write_all(w3, "Content-Disposition: " \o part.content_disposition)
        w5 == write_crlf(w4)
    IN write_crlf(w5)

(***************************************************************************)
(* Read::read on a source, into a buffer of n bytes.  A failed read hands  *)
(* out no byte.  Cursor (a text part) and File read as much as fits.       *)
(***************************************************************************)
read(r, n) ==
    IF r.script # <<>> /\ Head(r.script) = 0
    THEN [ok |-> FALSE, num |-> 0, bytes |-> "",
          read |-> [r EXCEPT !.script = Tail(@)]]
    ELSE LET want == IF r.script # <<>> THEN Min(Head(r.script), n) ELSE n
             num == Min(Len(r.data) - r.pos, want)
         IN [ok |-> TRUE, num |-> num,
             bytes |-> SubSeq(r.data, r.pos + 1, r.pos + num),
             read |-> [r EXCEPT !.pos = @ + num,
                                !.script = IF @ = <<>> THEN @ ELSE Tail(@)]]

(***************************************************************************)
(* Body.  parts is the Peekable<IntoIter<Part>>: the vector and the index  *)
(* of the next part; current is the active reader, with the index of the   *)
(* part it came from.                                                      *)
(***************************************************************************)
\* Mutant: the Body gets a boundary of its own, from a second call of the
\* generator.
Body_from_fresh(f) ==
    [buf_size |-> 2048,
     current |-> None,
     parts |-> [v |-> f.parts, i |-> 1],
     boundary |-> "ZyX987"]

\* Mutant: the parts are taken from the back of the vector.
Body_from_rev(f) ==
    [buf_size |-> 2048,
     current |-> None,
     parts |-> [v |-> [k \in 1..Len(f.parts) |-> f.parts[Len(f.parts) + 1 - k]],
                i |-> 1],
     boundary |-> f.boundary]

Body_from(f) ==
    [buf_size |-> 2048,
     current |-> None,
     parts |-> [v |-> f.parts, i |-> 1],
     boundary |-> f.boundary]

peek(parts) == IF parts.i <= Len(parts.v) THEN Some(parts.v[parts.i]) ELSE None

remaining(parts) == SubSeq(parts.v, parts.i, Len(parts.v))

\* Mutant: the part is taken from the back of the iterator.
take_part_back(self, buf) ==
    LET n == Len(self.parts.v)
        part == self.parts.v[n]
        w == write_headers(self, write_boundary(self, buf), part)
        rd == IF part.inner.kind = "Read" THEN part.inner.read
              ELSE Reader(part.inner.s, <<>>)
    IN [self |-> [self EXCEPT !.parts.v = SubSeq(@, 1, n - 1),
                              !.current = Some([read |-> rd, part |-> n])],
        buf |-> mark(w, "head", n, Len(buf.data))]

\* Mutant: taking a part advances the iterator by two.
take_part_skip(self, buf) ==
    LET part == self.parts.v[self.parts.i]
        w == write_headers(self, write_boundary(self, buf), part)
        rd == IF part.inner.kind = "Read" THEN part.inner.read
              ELSE Reader(part.inner.s, <<>>)
    IN [self |-> [self EXCEPT !.parts.i = @ + 2,
                              !.current = Some([read |-> rd, part |-> self.parts.i])],
        buf |-> mark(w, "head", self.parts.i, Len(buf.data))]

\* Lines 111-122: the next part is taken, its boundary and headers are
\* written, and its source becomes the active reader.
take_part(self, buf) ==
    LET part == self.parts.v[self.parts.i]
        w == write_headers(self, write_boundary(self, buf), part)
        rd == IF part.inner.kind = "Read" THEN part.inner.read
              ELSE Reader(part.inner.s, <<>>)
    IN [self |-> [self EXCEPT !.parts.i = @ + 1,
                              !.current = Some([read |-> rd, part |-> self.parts.i])],
        buf |-> mark(w, "head", self.parts.i, Len(buf.data))]

\* Mutant: the buffer is advanced by one byte less than the read returned.
fill_short(self, buf) ==
    IF self.current = None
    THEN [ok |-> TRUE, num |-> 0, part |-> 0, bytes |-> "", self |-> self, buf |-> buf]
    ELSE LET b == chunk_mut(buf)
             cur == self.current[1]
             r == read(cur.read, b.cap - Len(b.data))
         IN [ok |-> r.ok, num |-> r.num, part |-> cur.part, bytes |-> r.bytes,
             self |-> [self EXCEPT !.current = Some([cur EXCEPT !.read = r.read])],
             buf |-> IF r.num = 0 THEN b
                     ELSE mark([b EXCEPT !.data = @ \o SubSeq(r.bytes, 1, r.num - 1)],
                               "content", cur.part, Len(b.data))]

\* Mutant: a reader that has given its last byte is released at once.
fill_release(self, buf) ==
    IF self.current = None
    THEN [ok |-> TRUE, num |-> 0, part |-> 0, bytes |-> "", self |-> self, buf |-> buf]
    ELSE LET b == chunk_mut(buf)
             cur == self.current[1]
             r == read(cur.read, b.cap - Len(b.data))
         IN [ok |-> r.ok, num |-> r.num, part |-> cur.part, bytes |-> r.bytes,
             self |-> [self EXCEPT !.current =
                          IF r.ok /\ r.read.pos = Len(r.read.data) THEN None
                          ELSE Some([cur EXCEPT !.read = r.read])],
             buf |-> IF r.num = 0 THEN b
                     ELSE mark([b EXCEPT !.data = @ \o r.bytes], "content",
                               cur.part, Len(b.data))]

\* Lines 131-147: one read of the active reader into the spare capacity.
fill(self, buf) ==
    IF self.current = None
    THEN [ok |-> TRUE, num |-> 0, part |-> 0, bytes |-> "", self |-> self, buf |-> buf]
    ELSE LET b == chunk_mut(buf)
             cur == self.current[1]
             r == read(cur.read, b.cap - Len(b.data))
         IN [ok |-> r.ok, num |-> r.num, part |-> cur.part, bytes |-> r.bytes,
             self |-> [self EXCEPT !.current = Some([cur EXCEPT !.read = r.read])],
             buf |-> IF r.num = 0 THEN b
                     ELSE mark([b EXCEPT !.data = @ \o r.bytes], "content",
                               cur.part, Len(b.data))]

\* What poll_next hands back: the Body after the call and the item.  kind is
\* chunk (Some(Ok(frame))), err (Some(Err(..))) or eos (None); reads counts
\* the read calls made, log what each of them returned (the part read, Ok
\* or Err, the bytes), and depth the nested poll_next calls.
Item(self, kind, buf, g) ==
    [self |-> self,
     out |-> [kind |-> kind, chunk |-> buf.data, segs |-> buf.segs,
              reads |-> g.reads, depth |-> g.depth, log |-> g.log]]

\* Lines 158-162: the final boundary goes into the buffer, which is emitted.
finish(self, buf, g) ==
    Item(self, "chunk",
         mark(write_final_boundary(self, buf), "final", 0, Len(buf.data)), g)

\* Mutant: with nothing left the final boundary is written (again).
end_of_stream_again(self, g) == finish(self, with_capacity(self.buf_size), g)

\* Lines 123-128: no active reader and no part left.
end_of_stream(self, g) == Item(self, "eos", with_capacity(0), g)

\* Mutant: when the reader is exhausted and parts remain, the buffer is
\* emitted as it is instead of going on to the next part.
poll_next_emit(self, g) ==
    LET bytes == with_capacity(self.buf_size)
        g1 == [g EXCEPT !.depth = @ + 1]
    IN IF self.current = None /\ peek(self.parts) = None
       THEN end_of_stream(self, g1)
       ELSE LET t == IF self.current = None THEN take_part(self, bytes)
                     ELSE [self |-> self, buf |-> bytes]
                r == fill(t.self, t.buf)
                g2 == [g1 EXCEPT !.reads = @ + 1,
                                 !.log = Append(@, [part |-> r.part, ok |-> r.ok,
                                                    bytes |-> r.bytes])]
            IN IF ~r.ok
               THEN Item(r.self, "err", with_capacity(0), g2)
               ELSE IF r.num = 0
               THEN LET s2 == [r.self EXCEPT !.current = None]
                    IN IF peek(s2.parts) = None
                       THEN finish(s2, r.buf, g2)
                       ELSE Item(s2, "chunk", r.buf, g2)
               ELSE Item(r.self, "chunk", r.buf, g2)

RECURSIVE poll_next(_, _)
poll_next(self, g) ==
    LET bytes == with_capacity(self.buf_size)
        g1 == [g EXCEPT !.depth = @ + 1]
    IN IF self.current = None /\ peek(self.parts) = None
       THEN end_of_stream(self, g1)
       ELSE LET t == IF self.current = None THEN take_part(self, bytes)
                     ELSE [self |-> self, buf |-> bytes]
                r == fill(t.self, t.buf)
                g2 == [g1 EXCEPT !.reads = @ + 1,
                                 !.log = Append(@, [part |-> r.part, ok |-> r.ok,
                                                    bytes |-> r.bytes])]
            IN IF ~r.ok
               THEN Item(r.self, "err", with_capacity(0), g2)
               ELSE IF r.num = 0
               THEN LET s2 == [r.self EXCEPT !.current = None]
                    IN IF peek(s2.parts) = None
                       THEN finish(s2, r.buf, g2)
                       ELSE poll_next(s2, g2)
               ELSE Item(r.self, "chunk", r.buf, g2)

\* Form::set_body: the Content-Type header and the Body made from the Form.
set_body(self) ==
    [header |-> "multipart/form-data; boundary=\"" \o self.boundary \o "\"",
     body |-> Body_from(self)]

(***************************************************************************)
(* The state machine.                                                      *)
(***************************************************************************)
Init ==
    /\ \E b \in Boundaries : form = Form_new(b)
    /\ calls = <<>>
    /\ body = None
    /\ request = None
    /\ polls = <<>>

Building == body = None /\ Len(calls) < MaxCalls

Call(op, args, ret) == [op |-> op, args |-> args, ret |-> ret]

AddText ==
    /\ Building
    /\ \E a \in TextArgs :
        /\ form' = add_text(form, a[1], a[2])
        /\ calls' = Append(calls, Call("add_text", a, "Ok"))
    /\ UNCHANGED <<body, request, polls>>

AddReader ==
    /\ Building
    /\ \E rd \in Readers :
        /\ form' = add_reader(form, "input", rd)
        /\ calls' = Append(calls, Call("add_reader", <<"input", rd>>, "Ok"))
    /\ UNCHANGED <<body, request, polls>>

AddReaderFile ==
    /\ Building
    /\ \E rd \in FileReaders :
        /\ form' = add_reader_file(form, "input", rd, "filename.txt")
        /\ calls' = Append(calls,
                Call("add_reader_file", <<"input", rd, "filename.txt">>, "Ok"))
    /\ UNCHANGED <<body, request, polls>>

AddReaderFileWithMime ==
    /\ Building
    /\ \E rd \in FileReaders, m \in Mimes :
        /\ form' = add_reader_file_with_mime(form, "input", rd, "filename.txt", m)
        /\ calls' = Append(calls,
                Call("add_reader_file_with_mime",
                     <<"input", rd, "filename.txt", m>>, "Ok"))
    /\ UNCHANGED <<body, request, polls>>

AddFile ==
    /\ Building
    /\ \E path \in Paths :
        LET r == add_file(form, "file", path) IN
        /\ form' = r.self
        /\ calls' = Append(calls, Call("add_file", <<"file", path>>, r.ret))
    /\ UNCHANGED <<body, request, polls>>

AddFileWithMime ==
    /\ Building
    /\ \E path \in Paths, m \in Mimes :
        LET r == add_file_with_mime(form, "data", path, m) IN
        /\ form' = r.self
        /\ calls' = Append(calls, Call("add_file_with_mime", <<"data", path, m>>, r.ret))
    /\ UNCHANGED <<body, request, polls>>

\* Body::from(form), called directly.
From ==
    /\ body = None
    /\ body' = Some(Body_from(form))
    /\ UNCHANGED <<form, calls, request, polls>>

SetBody ==
    /\ body = None
    /\ LET r == set_body(form) IN
        /\ body' = Some(r.body)
        /\ request' = Some(r.header)
    /\ UNCHANGED <<form, calls, polls>>

EosPolls == Cardinality({k \in 1..Len(polls) : polls[k].kind = "eos"})

\* The consumer can poll: there is a Body and it has not yet seen the end of
\* the stream more than MaxEosPolls times.
PollEnabled == body # None /\ EosPolls <= MaxEosPolls

PollNext ==
    /\ PollEnabled
    /\ LET r == poll_next(body[1], [reads |-> 0, depth |-> 0, log |-> <<>>]) IN
        /\ body' = Some(r.self)
        /\ polls' = Append(polls, r.out)
    /\ UNCHANGED <<form, calls, request>>

Next ==
    \/ AddText
    \/ AddReader
    \/ AddReaderFile
    \/ AddReaderFileWithMime
    \/ AddFile
    \/ AddFileWithMime
    \/ From
    \/ SetBody
    \/ PollNext

Spec == Init /\ [][Next]_vars

\* The consumer keeps pulling: hyper polls the Body it was given until the
\* Body signals the end of the stream.
\* This is weak fairness of PollNext, WF_vars(PollNext), with its ENABLED
\* written as the state predicate PollEnabled: a poll always appends to polls,
\* so <<PollNext>>_vars is enabled exactly when PollEnabled holds.
SpecLive ==
    /\ Init
    /\ [][Next]_vars
    /\ ([]<>(~PollEnabled) \/ []<><<PollNext>>_vars)

(***************************************************************************)
(* What a consumer sees, read off the record of the polls.                 *)
(***************************************************************************)
Last(s) == s[Len(s)]

NParts == Len(form.parts)

\* End-of-stream has been signalled.
Ended == polls # <<>> /\ Last(polls).kind = "eos"

\* No poll returned an error.
NoError == \A k \in 1..Len(polls) : polls[k].kind # "err"

RECURSIVE Concat(_)
Concat(ss) == IF ss = <<>> THEN "" ELSE Head(ss) \o Concat(Tail(ss))

\* All bytes emitted so far.
Emitted == Concat([k \in 1..Len(polls) |-> polls[k].chunk])

\* The segments of one chunk, each with its bytes.
RECURSIVE Cut(_, _, _)
Cut(data, segs, from) ==
    IF segs = <<>> THEN <<>>
    ELSE <<[tag |-> Head(segs).tag, part |-> Head(segs).part,
            bytes |-> SubSeq(data, from + 1, from + Head(segs).len)]>>
         \o Cut(data, Tail(segs), from + Head(segs).len)

RECURSIVE SegsOf(_)
SegsOf(ps) ==
    IF ps = <<>> THEN <<>>
    ELSE Cut(Head(ps).chunk, Head(ps).segs, 0) \o SegsOf(Tail(ps))

\* All segments emitted so far, in order.
EmittedSegs == SegsOf(polls)

\* Where in the segments es the segments of one kind and part are.
WhereIn(es, tag, part) ==
    {k \in 1..Len(es) : es[k].tag = tag /\ es[k].part = part}

Where(tag, part) == WhereIn(EmittedSegs, tag, part)

\* The content bytes of part i among the segments es, in order.
ContentIn(es, i) ==
    LET content == SelectSeq(es, LAMBDA sg : sg.tag = "content" /\ sg.part = i)
    IN Concat([k \in 1..Len(content) |-> content[k].bytes])

\* The content bytes of part i emitted so far, in order.
ContentOf(i) == ContentIn(EmittedSegs, i)

\* The bytes a part's source holds.
PartContent(p) == IF p.inner.kind = "Text" THEN p.inner.s ELSE p.inner.read.data

IsPrefix(a, b) == Len(a) <= Len(b) /\ SubSeq(b, 1, Len(a)) = a

FinalBoundary == CRLF \o "--" \o form.boundary \o "--"

\* The canonical RFC 7578 layout of the Form.
CanonicalPart(p) ==
    CRLF \o "--" \o form.boundary \o CRLF
    \o "Content-Type: " \o p.content_type \o CRLF
    \o "Content-Disposition: " \o p.content_disposition \o CRLF
    \o CRLF \o PartContent(p)

Canonical ==
    Concat([i \in 1..NParts |-> CanonicalPart(form.parts[i])]) \o FinalBoundary

(***************************************************************************)
(* Claims.                                                                 *)
(***************************************************************************)

\* C1: the chunks emitted up to end-of-stream, concatenated, are the
\* canonical layout: every part in insertion order with its boundary line,
\* headers and content, then the final boundary.  Stated for a Form with at
\* least one part whose sources never fail (the empty Form is C2's case).
\* The code violates it: a part with no content that is not the last one
\* loses its boundary and headers.
C1_CanonicalLayout ==
    (Ended /\ NoError /\ NParts >= 1) => Emitted = Canonical

\* C2: for an empty Form the first poll emits one chunk, the final boundary,
\* and every later poll signals end-of-stream.  The code violates it: the
\* first poll signals end-of-stream and nothing is emitted.
C2_EmptyFormFinalBoundary ==
    (NParts = 0 /\ polls # <<>>) =>
        /\ polls[1].kind = "chunk"
        /\ polls[1].chunk = FinalBoundary
        /\ \A k \in 2..Len(polls) : polls[k].kind = "eos"

\* C3: up to end-of-stream a Form with N parts emits N boundary+header
\* blocks, one per part and each right before that part's content (also when
\* there is none), and one final boundary.  Stated for a Form with at least
\* one part whose sources never fail.  The code violates it (see C1).
C3_OneBlockPerPart ==
    (Ended /\ NoError /\ NParts >= 1) =>
        LET es == EmittedSegs IN
        /\ \A i \in 1..NParts : Cardinality(WhereIn(es, "head", i)) = 1
        /\ Cardinality(WhereIn(es, "final", 0)) = 1
        /\ \A k \in 1..Len(es) :
              es[k].tag = "content" =>
                  /\ k > 1
                  /\ es[k - 1].part = es[k].part
                  /\ es[k - 1].tag \in {"head", "content"}

\* C4: once a poll has signalled end-of-stream, every later poll signals
\* end-of-stream, emits nothing and reads no source; and the final boundary
\* is written at most once.
C4_DoneAbsorbing ==
    /\ \A i, j \in 1..Len(polls) :
          (i < j /\ polls[i].kind = "eos") =>
              /\ polls[j].kind = "eos"
              /\ polls[j].chunk = ""
              /\ polls[j].segs = <<>>
              /\ polls[j].reads = 0
    /\ Cardinality(Where("final", 0)) <= 1
    /\ Ended => body[1].current = None /\ peek(body[1].parts) = None

\* C4 witness: the final boundary was emitted, end-of-stream signalled, and
\* the Body polled again.
C4_Witness ==
    /\ NParts >= 1
    /\ Where("final", 0) # {}
    /\ \E i, j \in 1..Len(polls) : i < j /\ polls[i].kind = "eos"

\* C5: after a poll has returned an error, no later poll emits a chunk or
\* reads a source.  The code violates it: the failed reader stays active and
\* the next poll reads it again.
C5_ErrorIsTerminal ==
    \A i, j \in 1..Len(polls) :
        (i < j /\ polls[i].kind = "err") =>
            polls[j].kind # "chunk" /\ polls[j].reads = 0

\* C6: end-of-stream is signalled for the first time only right after the
\* poll whose chunk ended with the final boundary, and no chunk follows the
\* one carrying the final boundary.  The code violates it on the empty Form
\* (C2), whose first poll signals end-of-stream.
C6_FinalBoundaryLast ==
    /\ \A j \in 1..Len(polls) :
          (polls[j].kind = "eos" /\ (j = 1 \/ polls[j - 1].kind # "eos")) =>
              /\ j > 1
              /\ polls[j - 1].kind = "chunk"
              /\ polls[j - 1].segs # <<>>
              /\ Last(polls[j - 1].segs).tag = "final"
              /\ Len(polls[j - 1].chunk) >= Len(FinalBoundary)
              /\ SubSeq(polls[j - 1].chunk,
                        Len(polls[j - 1].chunk) - Len(FinalBoundary) + 1,
                        Len(polls[j - 1].chunk)) = FinalBoundary
    /\ \A i, j \in 1..Len(polls) :
          (i < j /\ \E k \in 1..Len(polls[i].segs) : polls[i].segs[k].tag = "final")
              => polls[j].kind # "chunk"

\* C7: content is emitted in order: the emitted segments follow the parts'
\* insertion order, a later part's framing or content appears only once an
\* earlier part's content is out in full, and the content emitted for a part
\* is, byte for byte, what its source has handed out so far.
C7_ContentInOrder ==
    LET es == EmittedSegs IN
    /\ \A k, l \in 1..Len(es) :
          (k < l /\ es[k].tag # "final") =>
              \/ es[l].tag = "final"
              \/ es[k].part <= es[l].part
    /\ \A k \in 1..Len(es) : es[k].tag = "final" => k = Len(es)
    /\ \A i \in 1..NParts : IsPrefix(ContentIn(es, i), PartContent(form.parts[i]))
    /\ \A i, j \in 1..NParts :
          (i < j /\ (WhereIn(es, "head", j) # {} \/ WhereIn(es, "content", j) # {})) =>
              ContentIn(es, i) = PartContent(form.parts[i])

\* C7 witness: two parts with content, both emitted, the second source read
\* in more than one piece.
C7_Witness ==
    /\ Ended
    /\ NParts = 2
    /\ ContentOf(1) # ""
    /\ Cardinality(Where("content", 2)) >= 2

\* The part a builder call is about: its source and its Content-Disposition.
CallInner(c) ==
    CASE c.op = "add_text" -> Inner_Text(c.args[2])
      [] c.op \in {"add_file", "add_file_with_mime"} ->
            Inner_Read(Reader(FS(c.args[2]).data, <<>>))
      [] OTHER -> Inner_Read(c.args[2])

CallDisposition(c) ==
    "form-data; name=\"" \o c.args[1] \o "\""
    \o (CASE c.op \in {"add_text", "add_reader"} -> ""
          [] c.op \in {"add_file", "add_file_with_mime"} ->
                "; filename=\"" \o c.args[2] \o "\""
          [] OTHER -> "; filename=\"" \o c.args[3] \o "\"")

OkCalls == SelectSeq(calls, LAMBDA c : c.ret = "Ok")

\* C8: an add_file or add_file_with_mime call that fails leaves the Form as
\* it was, and the part it was to add is in no Form and in no Body later.
C8_FailedAddFileLeavesForm ==
    /\ [][(Len(calls') = Len(calls) + 1 /\ Last(calls').ret # "Ok")
            => form' = form]_vars
    /\ [](\A c \in 1..Len(calls) :
            calls[c].ret # "Ok" =>
                /\ \A k \in 1..NParts :
                      form.parts[k].content_disposition # CallDisposition(calls[c])
                /\ body # None =>
                      \A k \in 1..Len(body[1].parts.v) :
                          body[1].parts.v[k].content_disposition
                              # CallDisposition(calls[c]))

\* C8 witness: add_file was refused on a directory after one part had been
\* added, and the Body made from the Form was polled to its end.
C8_Witness ==
    /\ Len(calls) = 2
    /\ calls[1].ret = "Ok"
    /\ calls[2].op = "add_file" /\ calls[2].ret = "Err(InvalidInput)"
    /\ Ended

\* C9: the Form holds one part per successful builder call, in call order;
\* the Body made from it has the same parts, in the same order, still to
\* come and no active reader.
C9_PartsInCallOrder ==
    /\ Len(form.parts) = Len(OkCalls)
    /\ \A k \in 1..Len(OkCalls) :
          /\ form.parts[k].inner = CallInner(OkCalls[k])
          /\ form.parts[k].content_disposition = CallDisposition(OkCalls[k])
    /\ (body # None /\ polls = <<>>) =>
          /\ body[1].current = None
          /\ remaining(body[1].parts) = form.parts

\* C9 witness: a Body fresh from a Form built by two different calls.
C9_Witness ==
    /\ body # None /\ polls = <<>>
    /\ Len(calls) = 2
    /\ calls[1].op = "add_reader" /\ calls[2].op = "add_file" /\ calls[2].ret = "Ok"

\* C10: no emitted chunk is longer than buf_size.  The code violates it: the
\* boundary and headers are written whatever their length, the buffer grows
\* to hold them, and the read then fills what the grown buffer has spare.
C10_ChunkWithinBufSize ==
    \A k \in 1..Len(polls) :
        polls[k].kind = "chunk" => Len(polls[k].chunk) <= body[1].buf_size

\* C11: the content type of a file part.  add_file_with_mime: the type
\* derived from the path's extension when there is an extension and the
\* lookup matches, the supplied mime when the lookup does not match or there
\* is no extension.  add_file: the derived type, application/octet-stream
\* when there is none.  The code violates it: with an extension whose lookup
\* does not match, the supplied mime is dropped.
C11_FileContentType ==
    \A k \in 1..Len(OkCalls) :
        LET c == OkCalls[k]
            ext == extension(c.args[2])
            derived == IF ext = None THEN None ELSE Mime_from_str(ext[1])
        IN /\ c.op = "add_file_with_mime" =>
                form.parts[k].content_type =
                    IF derived # None THEN derived[1] ELSE c.args[3]
           /\ c.op = "add_file" =>
                form.parts[k].content_type =
                    IF derived # None THEN derived[1] ELSE "application/octet-stream"

\* C12: one boundary is used throughout: the one generated when the Form
\* was created is never changed by a builder call or a poll, and it is the
\* one in the Content-Type header set_body attaches, in the Body, in every
\* part's boundary line and in the final boundary.
C12_OneBoundary ==
    /\ [][/\ form'.boundary = form.boundary
          /\ body # None => (body' # None /\ body'[1].boundary = body[1].boundary)]_vars
    /\ [](/\ form.boundary \in Boundaries
          /\ body # None => body[1].boundary = form.boundary
          /\ request # None =>
                request[1] = "multipart/form-data; boundary=\"" \o form.boundary \o "\""
          /\ LET es == EmittedSegs IN
             \A k \in 1..Len(es) :
                /\ es[k].tag = "head" =>
                      IsPrefix(CRLF \o "--" \o form.boundary \o CRLF, es[k].bytes)
                /\ es[k].tag = "final" => es[k].bytes = FinalBoundary)

\* C12 witness: set_body made the Body, and two boundary lines and the final
\* boundary have been emitted.
C12_Witness ==
    /\ request # None
    /\ Ended
    /\ Where("head", 1) # {} /\ Where("head", 2) # {} /\ Where("final", 0) # {}

\* C13: the first bytes emitted are a part's boundary line, CRLF -- boundary
\* CRLF.  The code violates it after a failed read (C5): the poll that
\* wrote the first boundary line returns the error and drops its buffer, and
\* the next poll emits content.
C13_FirstBytesBoundary ==
    Emitted # "" => IsPrefix(CRLF \o "--" \o form.boundary \o CRLF, Emitted)

C15_EventuallyEnds ==
    /\ (body # None) ~> (Ended \/ ~NoError)
    /\ [][(body # None /\ polls' # polls) =>
            LET before == body[1]
                after == body'[1]
                dequeued == after.parts.i - before.parts.i
            IN /\ dequeued >= 0
               /\ dequeued <= Len(remaining(before.parts))
               /\ Len(remaining(after.parts)) =
                      Len(remaining(before.parts)) - dequeued
               /\ Last(polls').reads <=
                      dequeued + (IF before.current # None THEN 1 ELSE 0)]_vars

\* C15 witness: a Form of two parts was pulled to end-of-stream with no
\* failed read, and one pull dequeued both parts.
C15_Witness ==
    /\ Ended
    /\ NoError
    /\ NParts = 2
    /\ \E k \in 1..Len(polls) : polls[k].reads = 2

\* C16: no poll emits an empty chunk: every chunk handed to the consumer
\* holds at least one byte, also when consecutive parts have no content and
\* when a reader is exhausted by the poll after the one that emitted its
\* last bytes.
C16_NoEmptyChunk ==
    \A k \in 1..Len(polls) :
        polls[k].kind = "chunk" => Len(polls[k].chunk) >= 1

\* C16 witness: two parts in a row with no content were polled to the end,
\* one poll going through both; or a reader that had given all its bytes was
\* found exhausted at the start of a later poll.
C16_Witness ==
    /\ Ended
    /\ NParts = 2
    /\ \/ /\ \A i \in 1..2 : PartContent(form.parts[i]) = ""
          /\ \E k \in 1..Len(polls) : polls[k].kind = "chunk" /\ polls[k].reads = 2
       \/ \E k \in 1..Len(polls) :
             /\ polls[k].kind = "chunk"
             /\ polls[k].segs[1].tag # "content"
             /\ polls[k].log[1].bytes = ""
             /\ polls[k].log[1].part = 1
             /\ ContentOf(1) # ""

\* Every read made so far, in order: the logs of the polls, one after the
\* other.
RECURSIVE ReadsOf(_)
ReadsOf(ps) ==
    IF ps = <<>> THEN <<>>
    ELSE ReadsOf(SubSeq(ps, 1, Len(ps) - 1)) \o Last(ps).log

Reads == ReadsOf(polls)

\* C17: when a read returns zero bytes the active reader is released in
\* that poll and never read again.  There is at most one active reader, and
\* it is the reader of the part dequeued last; parts are dequeued from the
\* front, each once (the parts read so far are exactly those before the
\* iterator's position, in order), and each part's boundary and headers are
\* emitted at most once.
C17_ReaderReleasedOnce ==
    body # None =>
        LET b == body[1]
            rl == Reads
            es == EmittedSegs
        IN /\ b.parts.v = form.parts
           /\ \A j, j2 \in 1..Len(rl) :
                 j < j2 =>
                    /\ rl[j].part <= rl[j2].part
                    /\ (rl[j].ok /\ rl[j].bytes = "") => rl[j2].part > rl[j].part
           /\ {rl[j].part : j \in 1..Len(rl)} = 1..(b.parts.i - 1)
           /\ b.current # None =>
                 /\ b.current[1].part = b.parts.i - 1
                 /\ \A j \in 1..Len(rl) :
                       rl[j].part = b.current[1].part => ~(rl[j].ok /\ rl[j].bytes = "")
           /\ \A i \in 1..NParts : Cardinality(WhereIn(es, "head", i)) <= 1

\* C17 witness: the first of two parts gave bytes, then zero bytes, and the
\* second part was read after that, up to end-of-stream.
C17_Witness ==
    /\ Ended
    /\ NParts = 2
    /\ ContentOf(1) # ""
    /\ \E j, j2 \in 1..Len(Reads) :
          /\ j < j2
          /\ Reads[j].part = 1 /\ Reads[j].ok /\ Reads[j].bytes = ""
          /\ Reads[j2].part = 2

\* C18: a poll made with an active reader whose read returns count > 0
\* emits exactly the bytes read as one chunk and changes nothing else: one
\* read, no boundary and no header bytes, the iterator of parts unchanged,
\* the same reader still active, moved on by count bytes, and the Form, the
\* request and the boundary untouched.
C18_ActiveReadFrame ==
    [][(/\ body # None
        /\ body[1].current # None
        /\ polls' # polls
        /\ Last(polls').log[1].ok
        /\ Last(polls').log[1].bytes # "") =>
            LET before == body[1]
                after == body'[1]
                out == Last(polls')
                count == Len(out.log[1].bytes)
            IN /\ polls' = Append(polls, out)
               /\ out.kind = "chunk"
               /\ out.chunk = out.log[1].bytes
               /\ out.reads = 1 /\ Len(out.log) = 1
               /\ out.segs = <<[tag |-> "content", part |-> before.current[1].part,
                                len |-> count]>>
               /\ after.parts = before.parts
               /\ after.boundary = before.boundary
               /\ after.buf_size = before.buf_size
               /\ after.current # None
               /\ after.current[1].part = before.current[1].part
               /\ after.current[1].read.data = before.current[1].read.data
               /\ after.current[1].read.pos = before.current[1].read.pos + count
               /\ UNCHANGED <<form, calls, request>>]_vars

\* C18 witness: the last poll emitted a chunk of content only, read from a
\* reader that was active when the poll began and is active still.
C18_Witness ==
    /\ Len(polls) >= 2
    /\ Last(polls).kind = "chunk"
    /\ Len(Last(polls).segs) = 1
    /\ Last(polls).segs[1].tag = "content"
    /\ body[1].current # None

\* The boundary line and the headers of part p, as write_boundary and
\* write_headers produce them.
BlockOf(p) ==
    CRLF \o "--" \o form.boundary \o CRLF
    \o "Content-Type: " \o p.content_type \o CRLF
    \o "Content-Disposition: " \o p.content_disposition \o CRLF \o CRLF

\* C19: a poll made with no active reader and a part pending, whose read
\* does not fail, emits one chunk that starts with the complete boundary and
\* header block of that part, followed by the bytes of the part's first
\* read.  In every chunk a block is whole and never comes after content.
\* The code violates the first half for a part with no content that is not
\* the last (C1): the buffer holding its block is dropped.
C19_BlockWithFirstContent ==
    /\ [][(/\ body # None
           /\ body[1].current = None
           /\ peek(body[1].parts) # None
           /\ polls' # polls
           /\ Last(polls').log[1].ok) =>
               LET i == body[1].parts.i
                   p == body[1].parts.v[i]
                   out == Last(polls')
                   cs == Cut(out.chunk, out.segs, 0)
               IN /\ out.kind = "chunk"
                  /\ out.log[1].part = i
                  /\ cs[1] = [tag |-> "head", part |-> i, bytes |-> BlockOf(p)]
                  /\ out.log[1].bytes # "" =>
                        /\ Len(cs) = 2
                        /\ cs[2] = [tag |-> "content", part |-> i,
                                    bytes |-> out.log[1].bytes]]_vars
    /\ [](\A k \in 1..Len(polls) :
             LET cs == Cut(polls[k].chunk, polls[k].segs, 0) IN
             \A j \in 1..Len(cs) :
                 cs[j].tag = "head" =>
                     /\ cs[j].bytes = BlockOf(form.parts[cs[j].part])
                     /\ j > 1 => cs[j - 1].tag # "content")

\* The reads of a log that returned bytes, as content segments.
Returned(log) ==
    LET gave(e) == e.bytes # ""
        some == SelectSeq(log, gave)
    IN [j \in 1..Len(some) |->
          [tag |-> "content", part |-> some[j].part, bytes |-> some[j].bytes]]

\* The content segments of a poll's chunk.
ContentSegs(p) ==
    LET isContent(c) == c.tag = "content"
    IN SelectSeq(Cut(p.chunk, p.segs, 0), isContent)

\* C20: content bytes are conserved.  The bytes each read returns are
\* emitted once, in the chunk of the poll that made the read: the content
\* segments of a poll's chunk are the non-empty reads of that poll, in
\* order, and a poll that emits no chunk has read no bytes.  So what has
\* been emitted of a part is what its reads returned, and at end-of-stream
\* it is the part's whole content.
C20_ContentConserved ==
    /\ \A k \in 1..Len(polls) :
          /\ ContentSegs(polls[k]) = Returned(polls[k].log)
          /\ polls[k].kind # "chunk" => polls[k].chunk = ""
    /\ LET es == EmittedSegs IN
       \A i \in 1..NParts :
          /\ IsPrefix(ContentIn(es, i), PartContent(form.parts[i]))
          /\ Ended => ContentIn(es, i) = PartContent(form.parts[i])

\* C20 witness: an empty part and a part read in several reads, a failed
\* one among them or not, polled to end-of-stream.
C20_Witness ==
    /\ Ended
    /\ NParts = 2
    /\ \E i \in 1..2 : PartContent(form.parts[i]) = ""
    /\ \E i \in 1..2 : Cardinality(Where("content", i)) >= 2

\* C21: within one poll, going past exhausted readers to the next pending
\* part is a loop: poll_next is not entered again from inside itself, so the
\* nesting depth of a poll is 1 however many parts without content follow
\* one another.  The code violates it: line 164 calls poll_next from
\* poll_next, once for every reader found exhausted while parts remain.
C21_DepthBounded ==
    \A k \in 1..Len(polls) : polls[k].depth <= 1

====
